---- MODULE Spec2Model ----
(***************************************************************************)
(* Model of src/complex-utils.py: process_and_filter_data,                 *)
(* calculate_complex_metric, read_and_process_file_content,                *)
(* check_status_A and check_status_B.                                      *)
(*                                                                         *)
(* A Python str is a sequence of code points (naturals).  A Python value   *)
(* of unknown type is a record tagged by k: "none", "str", "int", "bool",  *)
(* "float", "other".  A call ends with outcome "returned" (result holds    *)
(* the value) or "raised" (result holds the exception's name).             *)
(***************************************************************************)
EXTENDS Integers, Sequences, FiniteSets, TLC

VARIABLES
    fn,                     \* the function being called
    pc,                     \* position inside its body
    outcome,                \* "running", "returned" or "raised"
    result,                 \* the value returned, or the exception raised
    pos,                    \* position of a for loop over a list
    data_list, filter_char, max_length,          \* process_and_filter_data
    temp_storage, filtered_and_reversed,
    values, weight_factor, total_sum, product_sum, skipped, \* calculate_complex_metric
    path_kind, disk_text, encryption_key,        \* read_and_process_file_content
    f, file_content, printed,
    value                   \* check_status_A, check_status_B

callVars   == <<fn, pc, outcome, result, pos>>
textVars   == <<data_list, filter_char, max_length, temp_storage, filtered_and_reversed>>
metricVars == <<values, weight_factor, total_sum, product_sum, skipped>>
fileVars   == <<path_kind, disk_text, encryption_key, f, file_content, printed>>
statusVars == <<value>>
vars       == <<callVars, textVars, metricVars, fileVars, statusVars>>

-----------------------------------------------------------------------------
(* Bounds of the model *)

MaxItemLen == 2     \* longest text item of data_list
MaxItems   == 2     \* longest data_list

(* Program constants *)

MaxCodePoint == 1114111     \* sys.maxunicode, the largest argument chr() accepts
Pipe         == 124         \* ord('|')

-----------------------------------------------------------------------------
(* Python values *)

None      == [k |-> "none"]
PyStr(s)  == [k |-> "str", v |-> s]
PyInt(n)  == [k |-> "int", v |-> n]
PyBool(b) == [k |-> "bool", v |-> b]
Exc(name) == [k |-> "exc", v |-> name]

SeqsUpTo(S, n) == UNION {[1..m -> S] : m \in 0..n}

RECURSIVE Reverse(_)
Reverse(s) == IF s = <<>> THEN <<>> ELSE Append(Reverse(Tail(s)), Head(s))

\* str.upper(), one character: a..z map to A..Z; the other code points the
\* model uses ('@', '{', '|', '}', U+10FFFF, ...) have no upper-case form
UpperCh(c) == IF c \in 97..122 THEN c - 32 ELSE c
Upper(s)   == [j \in 1..Len(s) |-> UpperCh(s[j])]

\* str.lower(), one character
LowerCh(c) == IF c \in 65..90 THEN c + 32 ELSE c
Lower(s)   == [j \in 1..Len(s) |-> LowerCh(s[j])]

\* `sub in s` on two str
Contains(sub, s) ==
    \E j \in 0..(Len(s) - Len(sub)) : SubSeq(s, j + 1, j + Len(sub)) = sub

\* s.strip(chars): drop the leading and the trailing characters that are in chars
RECURSIVE LStrip(_, _)
LStrip(s, chars) ==
    IF s # <<>> /\ Head(s) \in chars THEN LStrip(Tail(s), chars) ELSE s
StripChars(s, chars) == Reverse(LStrip(Reverse(LStrip(s, chars)), chars))

-----------------------------------------------------------------------------
(* process_and_filter_data *)

\* chr(ord(char_val) + 1) is defined up to sys.maxunicode and raises ValueError above
ChrOk(n) == n >= 0 /\ n <= MaxCodePoint

ShiftOk(item) == \A j \in 1..Len(item) : ChrOk(item[j] + 1)
Shift(item)   == [j \in 1..Len(item) |-> item[j] + 1]

\* lines 34-38: the test and the value appended for one processed item
Kept(processed_item, token) == Contains(Upper(token), Upper(processed_item))
Oriented(processed_item) ==
    IF Len(processed_item) % 2 = 0 THEN Reverse(processed_item) ELSE processed_item

\* lines 40-42: final_result += s + "|" for every s
RECURSIVE Concat(_)
Concat(items) ==
    IF items = <<>> THEN <<>> ELSE Head(items) \o <<Pipe>> \o Concat(Tail(items))

\* line 44
FinalResult(final_result) ==
    IF final_result # <<>> THEN StripChars(final_result, {Pipe}) ELSE <<>>

TextChars   == {64, 97, 123, MaxCodePoint}      \* '@', 'a', '{', U+10FFFF
TextItems   == SeqsUpTo(TextChars, MaxItemLen)
TextTokens  == {<<>>, <<65>>, <<97>>, <<Pipe>>} \* "", "A", "a", "|"
TextLengths == {MaxItemLen - 1, MaxItemLen}

TextIdle ==
    /\ data_list = <<>> /\ filter_char = <<>> /\ max_length = 0
    /\ temp_storage = <<>> /\ filtered_and_reversed = <<>>

MetricIdle ==
    /\ values = <<>> /\ weight_factor = None
    /\ total_sum = 0 /\ product_sum = 1 /\ skipped = {}

FileIdle ==
    /\ path_kind = "missing" /\ disk_text = <<>> /\ encryption_key = <<>>
    /\ f = "unset" /\ file_content = <<>> /\ printed = "nothing"

StatusIdle == value = None

InitText ==
    /\ fn = "process_and_filter_data" /\ pc = "transform" /\ outcome = "running"
    /\ result = None /\ pos = 1
    /\ data_list \in SeqsUpTo(TextItems, MaxItems)
    /\ filter_char \in TextTokens
    /\ max_length \in TextLengths
    /\ temp_storage = <<>> /\ filtered_and_reversed = <<>>
    /\ MetricIdle /\ FileIdle /\ StatusIdle

\* lines 21-23: an item longer than max_length is skipped
TransformSkip ==
    /\ pc = "transform" /\ pos <= Len(data_list)
    /\ Len(data_list[pos]) > max_length
    /\ pos' = pos + 1
    /\ UNCHANGED <<fn, pc, outcome, result, textVars, metricVars, fileVars, statusVars>>

\* lines 26-30: every character shifted by one, the item appended to temp_storage
TransformItem ==
    /\ pc = "transform" /\ pos <= Len(data_list)
    /\ Len(data_list[pos]) <= max_length
    /\ ShiftOk(data_list[pos])
    /\ temp_storage' = Append(temp_storage, Shift(data_list[pos]))
    /\ pos' = pos + 1
    /\ UNCHANGED <<fn, pc, outcome, result, data_list, filter_char, max_length,
                   filtered_and_reversed, metricVars, fileVars, statusVars>>

\* line 28: chr() of a code point above sys.maxunicode raises ValueError,
\* which nothing in the function catches
TransformRaise ==
    /\ pc = "transform" /\ pos <= Len(data_list)
    /\ Len(data_list[pos]) <= max_length
    /\ ~ShiftOk(data_list[pos])
    /\ pc' = "done" /\ outcome' = "raised" /\ result' = Exc("ValueError")
    /\ UNCHANGED <<fn, pos, textVars, metricVars, fileVars, statusVars>>

\* line 32: the first loop is over, the second starts
TransformEnd ==
    /\ pc = "transform" /\ pos > Len(data_list)
    /\ pc' = "filter" /\ pos' = 1
    /\ UNCHANGED <<fn, outcome, result, textVars, metricVars, fileVars, statusVars>>

\* lines 33-38
FilterItem ==
    /\ pc = "filter" /\ pos <= Len(temp_storage)
    /\ filtered_and_reversed' =
          IF Kept(temp_storage[pos], filter_char)
          THEN Append(filtered_and_reversed, Oriented(temp_storage[pos]))
          ELSE filtered_and_reversed
    /\ pos' = pos + 1
    /\ UNCHANGED <<fn, pc, outcome, result, data_list, filter_char, max_length,
                   temp_storage, metricVars, fileVars, statusVars>>

\* lines 40-44
JoinAndReturn ==
    /\ pc = "filter" /\ pos > Len(temp_storage)
    /\ pc' = "done" /\ outcome' = "returned"
    /\ result' = PyStr(FinalResult(Concat(filtered_and_reversed)))
    /\ UNCHANGED <<fn, pos, textVars, metricVars, fileVars, statusVars>>

NextText ==
    \/ TransformSkip \/ TransformItem \/ TransformRaise \/ TransformEnd
    \/ FilterItem \/ JoinAndReturn

SpecText == InitText /\ [][NextText]_vars

-----------------------------------------------------------------------------
(* check_status_A, check_status_B *)

\* the characters str.strip() removes: the ASCII white space among them
WhiteSpace == {9, 10, 11, 12, 13, 28, 29, 30, 31, 32}

Active  == <<97, 99, 116, 105, 118, 101>>           \* "active"
Enabled == <<101, 110, 97, 98, 108, 101, 100>>      \* "enabled"

\* isinstance(value, int): bool is a subclass of int, True is 1 and False is 0
IsInstanceInt(v) == v.k \in {"int", "bool"}
IntOf(v) == IF v.k = "bool" THEN (IF v.v THEN 1 ELSE 0) ELSE v.v

\* value.strip().lower() == keyword
StripLowerIs(v, keyword) == Lower(StripChars(v.v, WhiteSpace)) = keyword

\* a plausible slip: the test of check_status_B (>= 0) copied into check_status_A
CheckStatusA_ZeroActive(v) ==
    IF v.k = "none" THEN FALSE
    ELSE IF v.k = "str" /\ StripLowerIs(v, Active) THEN TRUE
    ELSE IF IsInstanceInt(v) /\ IntOf(v) >= 0 THEN TRUE
    ELSE FALSE

\* lines 129-135
CheckStatusA(v) ==
    IF v.k = "none" THEN FALSE
    ELSE IF v.k = "str" /\ StripLowerIs(v, Active) THEN TRUE
    ELSE IF IsInstanceInt(v) /\ IntOf(v) > 0 THEN TRUE
    ELSE FALSE

\* Line 155, `if isinstance(value, str) value.strip().lower() == "enabled":`,
\* is not a Python statement (the `and` is missing): the compiler rejects the
\* definition with a SyntaxError, so no call of check_status_B, whatever its
\* argument, ever reaches a return statement.
CheckStatusB(v) == Exc("SyntaxError")

MaxPad == 1     \* most white space on either side of a text value
MaxInt == 2     \* integers range over -MaxInt..MaxInt

ApplyCase(word, mask) == [j \in 1..Len(word) |-> IF mask[j] THEN word[j] - 32 ELSE word[j]]
CaseVariants(word) == {ApplyCase(word, mask) : mask \in [1..Len(word) -> BOOLEAN]}

\* "activ", "act ive", "actives", "enable", "" and one-letter texts
OtherWords ==
    { SubSeq(Active, 1, 5), <<97, 99, 116, 32, 105, 118, 101>>, Active \o <<115>>,
      SubSeq(Enabled, 1, 6), <<>>, <<97>> }

StatusTexts ==
    { l \o w \o r : l \in SeqsUpTo({32, 9}, MaxPad), r \in SeqsUpTo({32, 10}, MaxPad),
                    w \in CaseVariants(Active) \cup CaseVariants(Enabled) \cup OtherWords }

StatusValues ==
    {None} \cup {PyStr(s) : s \in StatusTexts}
           \cup {PyInt(n) : n \in (0 - MaxInt)..MaxInt}
           \cup {PyBool(b) : b \in BOOLEAN}
           \cup {[k |-> "float", v |-> n] : n \in (0 - MaxInt)..MaxInt}
           \cup {[k |-> "other", v |-> <<>>]}

InitStatus ==
    /\ fn \in {"check_status_A", "check_status_B"}
    /\ pc = "call" /\ outcome = "running" /\ result = None /\ pos = 1
    /\ value \in StatusValues
    /\ TextIdle /\ MetricIdle /\ FileIdle

CallStatusA ==
    /\ fn = "check_status_A" /\ pc = "call"
    /\ pc' = "done" /\ outcome' = "returned"
    /\ result' = PyBool(CheckStatusA(value))
    /\ UNCHANGED <<fn, pos, textVars, metricVars, fileVars, statusVars>>

CallStatusB ==
    /\ fn = "check_status_B" /\ pc = "call"
    /\ pc' = "done" /\ outcome' = "raised"
    /\ result' = CheckStatusB(value)
    /\ UNCHANGED <<fn, pos, textVars, metricVars, fileVars, statusVars>>

NextStatus == CallStatusA \/ CallStatusB

SpecStatus == InitStatus /\ [][NextStatus]_vars

-----------------------------------------------------------------------------
(* read_and_process_file_content *)

MaxContent == 3     \* longest file content
MaxKey     == 2     \* longest encryption_key

\* a plausible slip: `|` typed for `^`
RECURSIVE Xor_Or(_, _)
Xor_Or(a, b) ==
    IF a = 0 THEN b
    ELSE IF b = 0 THEN a
    ELSE (IF (a % 2) + (b % 2) > 0 THEN 1 ELSE 0) + 2 * Xor_Or(a \div 2, b \div 2)

\* a ^ b on two code points
RECURSIVE Xor(_, _)
Xor(a, b) ==
    IF a = 0 THEN b
    ELSE IF b = 0 THEN a
    ELSE (((a % 2) + (b % 2)) % 2) + 2 * Xor(a \div 2, b \div 2)

\* line 107, ord(c) ^ ord(encryption_key[i % len(encryption_key)]), i counted from 0
XorAt(content, key, j) == Xor(content[j], key[((j - 1) % Len(key)) + 1])

\* line 107 raises ZeroDivisionError at the first character when the key is empty,
\* and ValueError when chr() gets a code point above sys.maxunicode
ObfuscateError(content, key) ==
    IF content = <<>> THEN "none"
    ELSE IF key = <<>> THEN "ZeroDivisionError"
    ELSE IF \E j \in 1..Len(content) : ~ChrOk(XorAt(content, key, j)) THEN "ValueError"
    ELSE "none"

\* line 107, the joined characters
Obfuscate(content, key) == [j \in 1..Len(content) |-> XorAt(content, key, j)]

\* a plausible slip: close() only on the way out of a successful read
AfterFinally_CloseOnSuccess(handle, report) ==
    IF handle = "open" /\ report = "nothing" THEN "closed" ELSE handle

\* lines 112-114: `if f: f.close()`; a file object is always true
AfterFinally(handle, report) == IF handle = "open" THEN "closed" ELSE handle

\* what open(filepath, 'r') and f.read() meet at the path
PathKinds == {"missing", "file", "undecodable", "directory", "unreadable"}

FileChars == {65, 97, 1048576}      \* 'A', 'a', U+100000
KeyChars  == {1, 68, 65536}         \* U+0001, 'D', U+10000

InitFile ==
    /\ fn = "read_and_process_file_content" /\ pc = "exists" /\ outcome = "running"
    /\ result = None /\ pos = 1
    /\ path_kind \in PathKinds
    /\ disk_text \in SeqsUpTo(FileChars, MaxContent)
    /\ path_kind \in {"missing", "directory"} => disk_text = <<>>
    /\ encryption_key \in SeqsUpTo(KeyChars, MaxKey)
    /\ f = "unset" /\ file_content = <<>> /\ printed = "nothing"
    /\ TextIdle /\ MetricIdle /\ StatusIdle

\* lines 98-100
FileNotFound ==
    /\ pc = "exists" /\ path_kind = "missing"
    /\ printed' = "not_found"
    /\ pc' = "done" /\ outcome' = "returned" /\ result' = None
    /\ UNCHANGED <<fn, pos, path_kind, disk_text, encryption_key, f, file_content,
                   textVars, metricVars, statusVars>>

\* lines 102-103: the file is opened before the try statement
FileOpen ==
    /\ pc = "exists" /\ path_kind \in {"file", "undecodable"}
    /\ f' = "open" /\ pc' = "read"
    /\ UNCHANGED <<fn, outcome, result, pos, path_kind, disk_text, encryption_key,
                   file_content, printed, textVars, metricVars, statusVars>>

\* line 103: open() raises outside the try statement, nothing catches it
FileOpenRaise ==
    /\ pc = "exists" /\ path_kind \in {"directory", "unreadable"}
    /\ pc' = "done" /\ outcome' = "raised"
    /\ result' = Exc(IF path_kind = "directory" THEN "IsADirectoryError"
                                                ELSE "PermissionError")
    /\ UNCHANGED <<fn, pos, fileVars, textVars, metricVars, statusVars>>

\* line 105
FileRead ==
    /\ pc = "read" /\ path_kind = "file"
    /\ file_content' = disk_text /\ pc' = "transform"
    /\ UNCHANGED <<fn, outcome, result, pos, path_kind, disk_text, encryption_key,
                   f, printed, textVars, metricVars, statusVars>>

\* lines 105, 109-111: f.read() raises UnicodeDecodeError, the handler reports it
FileReadFail ==
    /\ pc = "read" /\ path_kind = "undecodable"
    /\ printed' = "failed" /\ result' = None /\ pc' = "finally"
    /\ UNCHANGED <<fn, outcome, pos, path_kind, disk_text, encryption_key,
                   f, file_content, textVars, metricVars, statusVars>>

\* lines 107-108
FileTransform ==
    /\ pc = "transform" /\ ObfuscateError(file_content, encryption_key) = "none"
    /\ result' = PyStr(Obfuscate(file_content, encryption_key)) /\ pc' = "finally"
    /\ UNCHANGED <<fn, outcome, pos, fileVars, textVars, metricVars, statusVars>>

\* lines 107, 109-111
FileTransformFail ==
    /\ pc = "transform" /\ ObfuscateError(file_content, encryption_key) # "none"
    /\ printed' = "failed" /\ result' = None /\ pc' = "finally"
    /\ UNCHANGED <<fn, outcome, pos, path_kind, disk_text, encryption_key,
                   f, file_content, textVars, metricVars, statusVars>>

\* lines 112-114, then the pending return
FileFinally ==
    /\ pc = "finally"
    /\ f' = AfterFinally(f, printed)
    /\ pc' = "done" /\ outcome' = "returned"
    /\ UNCHANGED <<fn, result, pos, path_kind, disk_text, encryption_key,
                   file_content, printed, textVars, metricVars, statusVars>>

NextFile ==
    \/ FileNotFound \/ FileOpen \/ FileOpenRaise \/ FileRead \/ FileReadFail
    \/ FileTransform \/ FileTransformFail \/ FileFinally

SpecFile == InitFile /\ [][NextFile]_vars

-----------------------------------------------------------------------------
(* calculate_complex_metric *)

MaxValues == 3      \* longest sequence of values

\* The floats of one call are multiples of 1/Den: total_sum holds Den times
\* the program's total_sum, so that value / (i + 1) is exact for every i.
RECURSIVE Fact(_)
Fact(n) == IF n <= 1 THEN 1 ELSE n * Fact(n - 1)
Den == Fact(MaxValues)

\* float("<digits>") and float("-<digits>"); any other text of the model raises ValueError
Digits(s) == s # <<>> /\ \A j \in 1..Len(s) : s[j] \in 48..57
RECURSIVE DigitsValue(_)
DigitsValue(s) ==
    IF s = <<>> THEN 0 ELSE 10 * DigitsValue(SubSeq(s, 1, Len(s) - 1)) + (s[Len(s)] - 48)
IsNumericText(s) == Digits(s) \/ (s # <<>> /\ s[1] = 45 /\ Digits(Tail(s)))
TextValue(s) == IF s[1] = 45 THEN 0 - DigitsValue(Tail(s)) ELSE DigitsValue(s)

\* line 68, float(val): the exception it raises, or "none"
FloatError(val) ==
    CASE val.k \in {"int", "bool", "float"} -> "none"
      [] val.k = "str" -> IF IsNumericText(val.v) THEN "none" ELSE "ValueError"
      [] OTHER -> "TypeError"
FloatOf(val) ==
    CASE val.k = "str" -> TextValue(val.v)
      [] val.k = "bool" -> IF val.v THEN 1 ELSE 0
      [] OTHER -> val.v

\* line 71, num_val + weight_factor: a float plus a number, or TypeError
AddError(w) == IF w.k \in {"int", "bool", "float"} THEN "none" ELSE "TypeError"

\* a plausible slip: the division by the position left out
Share_Undivided(num_val, i) == num_val * Den

\* line 70, num_val / (i + 1), in units of 1/Den
Share(num_val, i) == num_val * (Den \div (i + 1))

\* math.log in fixed point: ln(p) = m ln 2 + 2 atanh((p - 2^m) / (p + 2^m)) with
\* 2^m <= p < 2^(m+1), in units of 1/LnScale.  The error is below 2/100000,
\* less than the distance of total_sum + ln(product_sum) from an integer in
\* every call of the model where that sum is not an integer exactly.
LnScale == 10^6
MulFix(a, b) == ((a \div 1000) * b) \div 1000 + ((a % 1000) * b) \div LnScale
RECURSIVE Log2(_)
Log2(p) == IF p < 2 THEN 0 ELSE 1 + Log2(p \div 2)
RECURSIVE AtanhSeries(_, _, _, _)
AtanhSeries(t, z2, k, n) ==
    IF n = 0 THEN 0 ELSE (t \div k) + AtanhSeries(MulFix(t, z2), z2, k + 2, n - 1)
LnFix(p) ==
    LET m == Log2(p)
        z == ((p - 2^m) * LnScale) \div (p + 2^m)
    IN  m * 693147 + 2 * AtanhSeries(z, MulFix(z, z), 1, 7)

\* math.floor(total_sum + math.log(product_sum)), total in units of 1/Den
FloorSumLog(total, product) ==
    (total * LnScale + Den * LnFix(product)) \div (Den * LnScale)

PyFloat(x) == [k |-> "float", v |-> x]

\* line 79
MetricResult(total, product) ==
    IF product > 0 THEN PyInt(FloorSumLog(total, product)) ELSE PyFloat(0)

MetricVals ==
    {PyInt(n) : n \in {-1, 0, 1, 2}} \cup {PyStr(<<50>>), PyStr(<<120>>), None} \* "2", "x"
MetricWeights == {PyInt(0), PyInt(1), PyStr(<<120>>)}

InitMetric ==
    /\ fn = "calculate_complex_metric" /\ pc = "empty" /\ outcome = "running"
    /\ result = None /\ pos = 1
    /\ values \in SeqsUpTo(MetricVals, MaxValues)
    /\ weight_factor \in MetricWeights
    /\ total_sum = 0 /\ product_sum = 1 /\ skipped = {}
    /\ TextIdle /\ FileIdle /\ StatusIdle

\* lines 60-61
MetricEmpty ==
    /\ pc = "empty" /\ values = <<>>
    /\ pc' = "done" /\ outcome' = "returned" /\ result' = PyFloat(0)
    /\ UNCHANGED <<fn, pos, textVars, metricVars, fileVars, statusVars>>

\* lines 63-64
MetricStart ==
    /\ pc = "empty" /\ values # <<>>
    /\ total_sum' = 0 /\ product_sum' = 1
    /\ pc' = "loop" /\ pos' = 1
    /\ UNCHANGED <<fn, outcome, result, values, weight_factor, skipped,
                   textVars, fileVars, statusVars>>

\* lines 66-71, nothing raised; the program's i is pos - 1
MetricElement ==
    /\ pc = "loop" /\ pos <= Len(values)
    /\ FloatError(values[pos]) = "none" /\ AddError(weight_factor) = "none"
    /\ total_sum' = total_sum + Share(FloatOf(values[pos]), pos - 1)
    /\ product_sum' = product_sum * (FloatOf(values[pos]) + FloatOf(weight_factor))
    /\ pos' = pos + 1
    /\ UNCHANGED <<fn, pc, outcome, result, values, weight_factor, skipped,
                   textVars, fileVars, statusVars>>

\* lines 68, 72-77: float(val) raises TypeError or ValueError, the element is left
MetricCoerceFail ==
    /\ pc = "loop" /\ pos <= Len(values)
    /\ FloatError(values[pos]) # "none"
    /\ skipped' = skipped \cup {pos}
    /\ pos' = pos + 1
    /\ UNCHANGED <<fn, pc, outcome, result, values, weight_factor, total_sum,
                   product_sum, textVars, fileVars, statusVars>>

\* lines 68-74: line 70 has run when line 71 raises TypeError
MetricAddFail ==
    /\ pc = "loop" /\ pos <= Len(values)
    /\ FloatError(values[pos]) = "none" /\ AddError(weight_factor) # "none"
    /\ total_sum' = total_sum + Share(FloatOf(values[pos]), pos - 1)
    /\ skipped' = skipped \cup {pos}
    /\ pos' = pos + 1
    /\ UNCHANGED <<fn, pc, outcome, result, values, weight_factor, product_sum,
                   textVars, fileVars, statusVars>>

\* line 79
MetricReturn ==
    /\ pc = "loop" /\ pos > Len(values)
    /\ pc' = "done" /\ outcome' = "returned"
    /\ result' = MetricResult(total_sum, product_sum)
    /\ UNCHANGED <<fn, pos, textVars, metricVars, fileVars, statusVars>>

NextMetric ==
    \/ MetricEmpty \/ MetricStart \/ MetricElement \/ MetricCoerceFail
    \/ MetricAddFail \/ MetricReturn

SpecMetric == InitMetric /\ [][NextMetric]_vars

-----------------------------------------------------------------------------
(* Properties of process_and_filter_data *)

\* the '|'-join of a list of str
RECURSIVE JoinPipe(_)
JoinPipe(items) ==
    IF items = <<>> THEN <<>>
    ELSE IF Len(items) = 1 THEN items[1]
    ELSE items[1] \o <<Pipe>> \o JoinPipe(Tail(items))

\* the surviving items of a list, shifted, reversed when of even length
RECURSIVE Survivors(_, _, _)
Survivors(list, token, maxlen) ==
    IF list = <<>> THEN <<>>
    ELSE LET item == Head(list)
             rest == Survivors(Tail(list), token, maxlen)
         IN  IF Len(item) <= maxlen /\ Contains(Upper(token), Upper(Shift(item)))
             THEN <<IF Len(item) % 2 = 0 THEN Reverse(Shift(item)) ELSE Shift(item)>> \o rest
             ELSE rest

\* C1: whenever process_and_filter_data returns, the result is exactly the
\* '|'-join, in input order, of the surviving items (length <= max_length,
\* shifted form containing the filter token case-insensitively), each shifted
\* and reversed when its length is even; the empty string when none survives.
C1_JoinOfSurvivors ==
    (fn = "process_and_filter_data" /\ outcome = "returned")
        => result = PyStr(JoinPipe(Survivors(data_list, filter_char, max_length)))

\* C2: process_and_filter_data, check_status_A and check_status_B have no
\* error path: every call that ends has returned a value.
C2_NoErrorPaths ==
    (fn \in {"process_and_filter_data", "check_status_A", "check_status_B"} /\ pc = "done")
        => outcome = "returned"

-----------------------------------------------------------------------------
(* Properties of read_and_process_file_content *)

\* C3: read_and_process_file_content never raises; it ends with a result string,
\* or with NotFound reported and no result (nothing at the path), or with a
\* Failure reported and no result.
C3_NeverRaises ==
    (fn = "read_and_process_file_content" /\ pc = "done")
        => /\ outcome = "returned"
           /\ \/ result.k = "str" /\ printed = "nothing"
              \/ result = None /\ printed = "not_found" /\ path_kind = "missing"
              \/ result = None /\ printed = "failed"

C5_Involution ==
    (/\ fn = "read_and_process_file_content" /\ pc = "done"
     /\ result.k = "str" /\ encryption_key # <<>>)
        => /\ Len(result.v) = Len(file_content)
           /\ ObfuscateError(result.v, encryption_key) = "none"
           /\ Obfuscate(result.v, encryption_key) = file_content

\* a content longer than its key, so that the key is repeated, and changed by it
C5_Witness ==
    /\ fn = "read_and_process_file_content" /\ pc = "done"
    /\ result.k = "str" /\ Len(encryption_key) >= 2
    /\ Len(result.v) > Len(encryption_key)
    /\ \A j \in 1..Len(result.v) : result.v[j] # file_content[j]

\* C10: with an empty key and an existing readable file, whatever its content,
\* the call never returns a result string: it reports an error and has no result.
C10_EmptyKeyRejected ==
    (/\ fn = "read_and_process_file_content" /\ pc = "done"
     /\ path_kind = "file" /\ encryption_key = <<>>)
        => result.k # "str" /\ printed # "nothing"

-----------------------------------------------------------------------------
(* Properties of check_status_A and check_status_B *)

\* text that is the keyword in any mix of cases, between runs of white space
IsKeywordText(s, keyword) ==
    \E a \in 0..Len(s) :
        /\ a + Len(keyword) <= Len(s)
        /\ \A j \in 1..a : s[j] \in WhiteSpace
        /\ \A j \in 1..Len(keyword) : s[a + j] \in {keyword[j], keyword[j] - 32}
        /\ \A j \in (a + Len(keyword) + 1)..Len(s) : s[j] \in WhiteSpace

\* an integer of Python: an int, or True (the integer 1) or False (the integer 0)
IntegerAbove(v, least) ==
    \/ v.k = "int" /\ v.v >= least
    \/ v.k = "bool" /\ (IF v.v THEN 1 ELSE 0) >= least

\* C6: check_status_A returns true exactly when the value is text equal to
\* "active" after trimming and case-folding, or an integer > 0, and false for
\* every other value.
C6_StatusA ==
    (fn = "check_status_A" /\ pc = "done")
        => /\ outcome = "returned"
           /\ result = PyBool(\/ value.k = "str" /\ IsKeywordText(value.v, Active)
                              \/ IntegerAbove(value, 1))

\* "active" in mixed case with white space on both sides, found active
C6_Witness ==
    /\ fn = "check_status_A" /\ pc = "done" /\ result = PyBool(TRUE)
    /\ value.k = "str" /\ Len(value.v) = Len(Active) + 2
    /\ value.v[2] = 65 /\ value.v[3] = 99

\* C7: check_status_B returns true exactly when the value is text equal to
\* "enabled" after trimming and case-folding, or an integer >= 0, and false
\* for every other value.
C7_StatusB ==
    (fn = "check_status_B" /\ pc = "done")
        => /\ outcome = "returned"
           /\ result = PyBool(\/ value.k = "str" /\ IsKeywordText(value.v, Enabled)
                              \/ IntegerAbove(value, 0))

-----------------------------------------------------------------------------
(* Properties of calculate_complex_metric *)

\* the sum of value / position, in units of 1/Den, and the product of
\* value + offset, over the elements at the positions of 1..n that are in `counted`
RECURSIVE TotalOver(_, _, _)
TotalOver(vals, n, counted) ==
    IF n = 0 THEN 0
    ELSE TotalOver(vals, n - 1, counted)
         + (IF n \in counted THEN (FloatOf(vals[n]) * Den) \div n ELSE 0)
RECURSIVE ProductOver(_, _, _, _)
ProductOver(vals, offset, n, counted) ==
    IF n = 0 THEN 1
    ELSE ProductOver(vals, offset, n - 1, counted)
         * (IF n \in counted THEN FloatOf(vals[n]) + FloatOf(offset) ELSE 1)

Coerced == {j \in 1..Len(values) : FloatError(values[j]) = "none"}
NotSkipped == (1..Len(values)) \ skipped

\* C8: with a numeric weight offset, calculate_complex_metric returns 0.0 when
\* the sequence is empty or the product is <= 0, and otherwise
\* floor(total_sum + ln(product_sum)), total_sum the sum of value_i / (i + 1)
\* and product_sum the product of value_i + offset over the coerced elements.
C8_MetricValue ==
    (fn = "calculate_complex_metric" /\ pc = "done" /\ weight_factor.k = "int")
        => /\ outcome = "returned"
           /\ LET total   == TotalOver(values, Len(values), Coerced)
                  product == ProductOver(values, weight_factor, Len(values), Coerced)
              IN  result = IF values = <<>> \/ product <= 0
                           THEN PyFloat(0)
                           ELSE PyInt(FloorSumLog(total, product))

\* a first element that cannot be coerced, a later one divided by its own
\* position, and a positive product
C8_Witness ==
    /\ fn = "calculate_complex_metric" /\ pc = "done" /\ weight_factor.k = "int"
    /\ Len(values) >= 3 /\ 1 \notin Coerced /\ 2 \in Coerced /\ 3 \in Coerced
    /\ FloatOf(values[3]) = 2
    /\ result.k = "int" /\ result.v >= 1

\* C9: an element whose processing fails changes neither total_sum nor
\* product_sum, and the later elements keep their own divisors: when the loop
\* is over the accumulators are those of the elements that were not skipped.
C9_SkippedWhole ==
    (fn = "calculate_complex_metric" /\ pc = "done" /\ values # <<>>)
        => /\ total_sum = TotalOver(values, Len(values), NotSkipped)
           /\ product_sum = ProductOver(values, weight_factor, Len(values), NotSkipped)

====
